---- MODULE Spec2Model ----
(***************************************************************************)
(* greenbone-feed-sync: the sync orchestration of                          *)
(* greenbone/feed/sync/main.py.                                            *)
(*                                                                         *)
(* One invocation of the tool (a "run") checks the effective user id,      *)
(* parses its arguments, builds the openvas and the gvmd sync lists with   *)
(* filter_syncs, and then, for each non-empty list, takes the list's lock  *)
(* file with flock_wait and awaits rsync.sync for each Sync in order.      *)
(* main() maps the outcome of feed_sync() to the process exit status.      *)
(*                                                                         *)
(* flock_wait, Rsync and CliParser are collaborators: they are modelled    *)
(* by their contract.  The lock files are shared with other processes      *)
(* (the daemons owning the destination trees, and other runs).             *)
(***************************************************************************)
EXTENDS Integers, Sequences, FiniteSets, TLC

\* ------------------------------------------------------------------------
\* Values
\* ------------------------------------------------------------------------

\* Python's None, and a present value v.  A possibly-absent value is the
\* empty tuple or a one-element tuple, so that it compares with any value.
None == <<>>
Some(v) == <<v>>

\* The invocations of the tool that may exist at the same time.
Runs == {"run1", "run2"}

\* The run of the single-invocation specification.
MainRun == "run1"

\* args.openvas_lock_file and args.gvmd_lock_file
OpenvasLockFile == "openvas.lock"
GvmdLockFile == "gvmd.lock"
LockFiles == {OpenvasLockFile, GvmdLockFile}

\* Sync(name, types, url, destination)
Sync(name, types, url, destination) ==
    [name |-> name, types |-> types, url |-> url, destination |-> destination]

\* SyncList(lock_file, syncs)
SyncList(lock_file, syncs) == [lock_file |-> lock_file, syncs |-> syncs]

\* Mutant of OpenvasCandidates: the NASL files are not tagged "all".
OpenvasCandidates_NoAll ==
    << Sync("Notus files", {"notus", "nvt", "all"}, "notus_url", "notus_destination"),
       Sync("NASL files", {"nasl", "nvt"}, "nasl_url", "nasl_destination") >>

\* The candidates handed to the first filter_syncs call of feed_sync.
OpenvasCandidates ==
    << Sync("Notus files", {"notus", "nvt", "all"}, "notus_url", "notus_destination"),
       Sync("NASL files", {"nasl", "nvt", "all"}, "nasl_url", "nasl_destination") >>

\* The candidates handed to the second filter_syncs call of feed_sync.
GvmdCandidates ==
    << Sync("SCAP data", {"scap", "all"}, "scap_data_url", "scap_data_destination"),
       Sync("CERT-Bund data", {"cert", "all"}, "cert_data_url", "cert_data_destination"),
       Sync("report formats", {"report-format", "gvmd-data", "all"},
            "report_formats_url", "report_formats_destination"),
       Sync("scan configs", {"scan-config", "gvmd-data", "all"},
            "scan_configs_url", "scan_configs_destination"),
       Sync("port lists", {"port-list", "gvmd-data", "all"},
            "port_lists_url", "port_lists_destination") >>

Range(s) == {s[i] : i \in 1..Len(s)}

AllSyncs == Range(OpenvasCandidates) \cup Range(GvmdCandidates)

\* The feed types a run can be asked for: the tags of the configured syncs.
FeedTypes == UNION {s.types : s \in AllSyncs}

\* The wait intervals a run can be given (args.wait_interval), in seconds.
WaitIntervals == {5, 30}

\* The parsed arguments feed_sync reads.
ArgSpace ==
    [type : FeedTypes, fail_fast : BOOLEAN, no_wait : BOOLEAN,
     wait_interval : WaitIntervals,
     openvas_lock_file : {OpenvasLockFile}, gvmd_lock_file : {GvmdLockFile}]

\* ------------------------------------------------------------------------
\* filter_syncs
\* ------------------------------------------------------------------------

\* [sync for sync in syncs if feed_type in sync.types]
RECURSIVE Comprehension(_, _)
Comprehension(feed_type, syncs) ==
    IF syncs = <<>> THEN <<>>
    ELSE IF feed_type \in Head(syncs).types
         THEN <<Head(syncs)>> \o Comprehension(feed_type, Tail(syncs))
         ELSE Comprehension(feed_type, Tail(syncs))

\* Mutant of filter_syncs: the first kept sync is lost.
filter_syncs_DropsFirst(lock_file, feed_type, syncs) ==
    SyncList(lock_file,
             IF Comprehension(feed_type, syncs) = <<>> THEN <<>>
             ELSE Tail(Comprehension(feed_type, syncs)))

\* Mutant of filter_syncs: the kept syncs come out in reverse order.
RECURSIVE Reversed(_)
Reversed(s) == IF s = <<>> THEN <<>> ELSE Append(Reversed(Tail(s)), Head(s))
filter_syncs_Reversed(lock_file, feed_type, syncs) ==
    SyncList(lock_file, Reversed(Comprehension(feed_type, syncs)))

filter_syncs(lock_file, feed_type, syncs) ==
    SyncList(lock_file, Comprehension(feed_type, syncs))

\* ------------------------------------------------------------------------
\* State
\* ------------------------------------------------------------------------

VARIABLES
    euid_root,      \* per run: os.geteuid() == 0
    argv,           \* per run: the command line, as the arguments it parses to
    pc,             \* per run: the position of the run in main()/feed_sync()
    args,           \* per run: None, or Some(parsed arguments)
    sync_lists,     \* per run: <<>>, or <<openvas_syncs, gvmd_syncs>>
    has_error,      \* per run: the local has_error of feed_sync
    wait_interval,  \* per run: the local wait_interval of feed_sync
    gi,             \* per run: position of the for loop over the sync lists
    si,             \* per run: position of the for loop over sync_list.syncs
    lock_owner,     \* per lock file: "free", "other" or the run holding it
    lock_attempts,  \* per run: the flock_wait calls made, in order
    lock_acquired,  \* per run: the lock files acquired, in order
    lock_failed,    \* per run: the lock file whose acquisition failed, or "none"
    lock_released,  \* per run: the lock files released, in order
    transfers,      \* per run: the rsync.sync calls made, in order, with outcome
    stderr,         \* per run: what was written to sys.stderr, in order
    result,         \* per run: None, or Some(return value of feed_sync)
    exc,            \* per run: the exception propagating out of feed_sync
    exit_status,    \* per run: None, or Some(process exit status)
    call            \* a single call of filter_syncs: its arguments and result

run_vars ==
    << euid_root, argv, pc, args, sync_lists, has_error, wait_interval, gi, si,
       lock_owner, lock_attempts, lock_acquired, lock_failed, lock_released,
       transfers, stderr, result, exc, exit_status >>

vars == << run_vars, call >>

\* A filter_syncs call that is not part of the behaviour.
NoCall == [lock_file |-> OpenvasLockFile, feed_type |-> "all", syncs |-> <<>>,
           result |-> None, again |-> None]

\* The arguments of a run that does not exist.
NoArgv == [type |-> "all", fail_fast |-> FALSE, no_wait |-> FALSE,
           wait_interval |-> 5,
           openvas_lock_file |-> OpenvasLockFile, gvmd_lock_file |-> GvmdLockFile]

\* The state before the runs in `started` execute their first statement; the
\* other runs do not exist.  The lock files may be held by another process.
RunsInit(started) ==
    /\ euid_root \in [Runs -> BOOLEAN]
    /\ \A r \in Runs \ started : euid_root[r] = FALSE
    /\ argv \in [Runs -> ArgSpace]
    /\ \A r \in Runs \ started : argv[r] = NoArgv
    /\ pc = [r \in Runs |-> IF r \in started THEN "start" ELSE "absent"]
    /\ args = [r \in Runs |-> None]
    /\ sync_lists = [r \in Runs |-> <<>>]
    /\ has_error = [r \in Runs |-> FALSE]
    /\ wait_interval = [r \in Runs |-> None]
    /\ gi = [r \in Runs |-> 1]
    /\ si = [r \in Runs |-> 1]
    /\ lock_owner \in [LockFiles -> {"free", "other"}]
    /\ lock_attempts = [r \in Runs |-> <<>>]
    /\ lock_acquired = [r \in Runs |-> <<>>]
    /\ lock_failed = [r \in Runs |-> "none"]
    /\ lock_released = [r \in Runs |-> <<>>]
    /\ transfers = [r \in Runs |-> <<>>]
    /\ stderr = [r \in Runs |-> <<>>]
    /\ result = [r \in Runs |-> None]
    /\ exc = [r \in Runs |-> "none"]
    /\ exit_status = [r \in Runs |-> None]

Init ==
    /\ RunsInit({MainRun})
    /\ call = NoCall

\* ------------------------------------------------------------------------
\* Helpers of the actions
\* ------------------------------------------------------------------------

\* The parsed arguments of run r (after parse_arguments).
Args(r) == args[r][1]

\* The sync list the for loop of run r is at.
sync_list(r) == sync_lists[r][gi[r]]

\* The Sync the inner for loop of run r is at.
sync(r) == sync_list(r).syncs[si[r]]

\* The lock files with run r's locks released: what leaving the
\* `async with flock_wait(...)` block does to the lock it holds.
Unlocked(r) ==
    [l \in LockFiles |-> IF lock_owner[l] = r THEN "free" ELSE lock_owner[l]]

\* The lock files released by run r, after it left the
\* `async with flock_wait(...)` block it is in, if any.
Released(r) ==
    [lock_released EXCEPT ![r] =
        IF \E l \in LockFiles : lock_owner[l] = r
        THEN Append(@, CHOOSE l \in LockFiles : lock_owner[l] = r)
        ELSE @]

\* The transfers of run r with the outcome of the last one set.
Outcome(r, outcome) ==
    [transfers[r] EXCEPT ![Len(transfers[r])].outcome = outcome]

\* ------------------------------------------------------------------------
\* feed_sync
\* ------------------------------------------------------------------------

\* Mutant of CheckRoot: the effective user id is not checked.
CheckRoot_Unchecked(r) ==
    /\ pc[r] = "start"
    /\ pc' = [pc EXCEPT ![r] = "parse"]
    /\ UNCHANGED << euid_root, argv, args, sync_lists, has_error, wait_interval,
                    gi, si, lock_owner, lock_attempts, lock_acquired, lock_failed, lock_released,
                    transfers, stderr, result, exc, exit_status, call >>

\* if is_root(): raise GreenboneFeedSyncError(...)
CheckRoot(r) ==
    /\ pc[r] = "start"
    /\ IF euid_root[r]
       THEN /\ pc' = [pc EXCEPT ![r] = "raised"]
            /\ exc' = [exc EXCEPT ![r] = "GreenboneFeedSyncError"]
       ELSE /\ pc' = [pc EXCEPT ![r] = "parse"]
            /\ exc' = exc
    /\ UNCHANGED << euid_root, argv, args, sync_lists, has_error, wait_interval,
                    gi, si, lock_owner, lock_attempts, lock_acquired, lock_failed, lock_released,
                    transfers, stderr, result, exit_status, call >>

\* parser = CliParser(); args = parser.parse_arguments(); rsync = Rsync(...)
ParseArguments(r) ==
    /\ pc[r] = "parse"
    /\ args' = [args EXCEPT ![r] = Some(argv[r])]
    /\ pc' = [pc EXCEPT ![r] = "filter"]
    /\ UNCHANGED << euid_root, argv, sync_lists, has_error, wait_interval,
                    gi, si, lock_owner, lock_attempts, lock_acquired, lock_failed, lock_released,
                    transfers, stderr, result, exc, exit_status, call >>

\* Mutant of BuildSyncLists: the condition on args.no_wait is inverted.
BuildSyncLists_WaitInverted(r) ==
    /\ pc[r] = "filter"
    /\ sync_lists' = [sync_lists EXCEPT ![r] =
           << filter_syncs(Args(r).openvas_lock_file, Args(r).type, OpenvasCandidates),
              filter_syncs(Args(r).gvmd_lock_file, Args(r).type, GvmdCandidates) >>]
    /\ has_error' = [has_error EXCEPT ![r] = FALSE]
    /\ wait_interval' = [wait_interval EXCEPT ![r] =
           IF Args(r).no_wait THEN Some(Args(r).wait_interval) ELSE None]
    /\ gi' = [gi EXCEPT ![r] = 1]
    /\ pc' = [pc EXCEPT ![r] = "group_loop"]
    /\ UNCHANGED << euid_root, argv, args, si, lock_owner, lock_attempts,
                    lock_acquired, lock_failed, lock_released, transfers, stderr,
                    result, exc, exit_status, call >>

\* openvas_syncs = filter_syncs(...); gvmd_syncs = filter_syncs(...);
\* has_error = False; wait_interval = None if args.no_wait else args.wait_interval
\* and the start of the loop over (openvas_syncs, gvmd_syncs).
BuildSyncLists(r) ==
    /\ pc[r] = "filter"
    /\ sync_lists' = [sync_lists EXCEPT ![r] =
           << filter_syncs(Args(r).openvas_lock_file, Args(r).type, OpenvasCandidates),
              filter_syncs(Args(r).gvmd_lock_file, Args(r).type, GvmdCandidates) >>]
    /\ has_error' = [has_error EXCEPT ![r] = FALSE]
    /\ wait_interval' = [wait_interval EXCEPT ![r] =
           IF Args(r).no_wait THEN None ELSE Some(Args(r).wait_interval)]
    /\ gi' = [gi EXCEPT ![r] = 1]
    /\ pc' = [pc EXCEPT ![r] = "group_loop"]
    /\ UNCHANGED << euid_root, argv, args, si, lock_owner, lock_attempts,
                    lock_acquired, lock_failed, lock_released, transfers, stderr, result, exc,
                    exit_status, call >>

\* for sync_list in (...): if not sync_list.syncs: continue
SkipEmptySyncList(r) ==
    /\ pc[r] = "group_loop"
    /\ gi[r] <= Len(sync_lists[r])
    /\ sync_list(r).syncs = <<>>
    /\ gi' = [gi EXCEPT ![r] = gi[r] + 1]
    /\ UNCHANGED << euid_root, argv, pc, args, sync_lists, has_error,
                    wait_interval, si, lock_owner, lock_attempts, lock_acquired,
                    lock_failed, lock_released, transfers, stderr, result, exc, exit_status, call >>

\* Mutant of EnterFlockWait: the lock file of an empty sync list is
\* requested too.
EnterFlockWait_EmptyToo(r) ==
    /\ pc[r] = "group_loop"
    /\ gi[r] <= Len(sync_lists[r])
    /\ lock_attempts' = [lock_attempts EXCEPT ![r] =
           Append(@, [lock_file |-> sync_list(r).lock_file,
                      wait_interval |-> wait_interval[r]])]
    /\ pc' = [pc EXCEPT ![r] = "flock_wait"]
    /\ UNCHANGED << euid_root, argv, args, sync_lists, has_error, wait_interval,
                    gi, si, lock_owner, lock_acquired, lock_failed, lock_released, transfers,
                    stderr, result, exc, exit_status, call >>

\* Mutant of EnterFlockWait: the loop over the syncs is not inside a
\* flock_wait block, the transfers start without the lock file.
EnterFlockWait_Unlocked(r) ==
    /\ pc[r] = "group_loop"
    /\ gi[r] <= Len(sync_lists[r])
    /\ sync_list(r).syncs # <<>>
    /\ si' = [si EXCEPT ![r] = 1]
    /\ pc' = [pc EXCEPT ![r] = "sync_loop"]
    /\ UNCHANGED << euid_root, argv, args, sync_lists, has_error, wait_interval,
                    gi, lock_owner, lock_attempts, lock_acquired, lock_failed,
                    lock_released, transfers, stderr, result, exc, exit_status,
                    call >>

\* async with flock_wait(sync_list.lock_file, ..., wait_interval=wait_interval):
\* the call is made and the run waits for the lock.
EnterFlockWait(r) ==
    /\ pc[r] = "group_loop"
    /\ gi[r] <= Len(sync_lists[r])
    /\ sync_list(r).syncs # <<>>
    /\ lock_attempts' = [lock_attempts EXCEPT ![r] =
           Append(@, [lock_file |-> sync_list(r).lock_file,
                      wait_interval |-> wait_interval[r]])]
    /\ pc' = [pc EXCEPT ![r] = "flock_wait"]
    /\ UNCHANGED << euid_root, argv, args, sync_lists, has_error, wait_interval,
                    gi, si, lock_owner, lock_acquired, lock_failed, lock_released, transfers,
                    stderr, result, exc, exit_status, call >>

\* flock_wait obtains the lock: the block is entered, the loop over
\* sync_list.syncs starts.
FlockAcquire(r) ==
    /\ pc[r] = "flock_wait"
    /\ lock_owner[sync_list(r).lock_file] = "free"
    /\ lock_owner' = [lock_owner EXCEPT ![sync_list(r).lock_file] = r]
    /\ lock_acquired' = [lock_acquired EXCEPT ![r] = Append(@, sync_list(r).lock_file)]
    /\ si' = [si EXCEPT ![r] = 1]
    /\ pc' = [pc EXCEPT ![r] = "sync_loop"]
    /\ UNCHANGED << euid_root, argv, args, sync_lists, has_error, wait_interval,
                    gi, lock_attempts, lock_failed, lock_released, transfers, stderr, result,
                    exc, exit_status, call >>

\* The exceptions flock_wait may fail with: one of the tool's own errors
\* (a GreenboneFeedSyncError) or any other exception.
FlockErrors == {"GreenboneFeedSyncError", "Exception"}

\* flock_wait gives up: with a bounded wait, the lock stayed held by another
\* process.  The exception leaves feed_sync.
FlockFail(r) ==
    /\ pc[r] = "flock_wait"
    /\ wait_interval[r] # None
    /\ lock_owner[sync_list(r).lock_file] \notin {"free", r}
    /\ \E e \in FlockErrors : exc' = [exc EXCEPT ![r] = e]
    /\ lock_failed' = [lock_failed EXCEPT ![r] = sync_list(r).lock_file]
    /\ pc' = [pc EXCEPT ![r] = "raised"]
    /\ UNCHANGED << euid_root, argv, args, sync_lists, has_error, wait_interval,
                    gi, si, lock_owner, lock_attempts, lock_acquired, lock_released,
                    transfers,
                    stderr, result, exit_status, call >>

\* for sync in sync_list.syncs: ... await rsync.sync(url=sync.url,
\* destination=sync.destination): the transfer is started.
StartTransfer(r) ==
    /\ pc[r] = "sync_loop"
    /\ si[r] <= Len(sync_list(r).syncs)
    /\ transfers' = [transfers EXCEPT ![r] =
           Append(@, [name |-> sync(r).name, url |-> sync(r).url,
                      destination |-> sync(r).destination,
                      lock_file |-> sync_list(r).lock_file,
                      outcome |-> "pending"])]
    /\ pc' = [pc EXCEPT ![r] = "rsync"]
    /\ UNCHANGED << euid_root, argv, args, sync_lists, has_error, wait_interval,
                    gi, si, lock_owner, lock_attempts, lock_acquired, lock_failed, lock_released,
                    stderr, result, exc, exit_status, call >>

\* Mutant of TransferSucceeds: the loop skips the sync after a successful
\* one.
TransferSucceeds_SkipsNext(r) ==
    /\ pc[r] = "rsync"
    /\ transfers' = [transfers EXCEPT ![r] = Outcome(r, "ok")]
    /\ si' = [si EXCEPT ![r] = si[r] + 2]
    /\ pc' = [pc EXCEPT ![r] = "sync_loop"]
    /\ UNCHANGED << euid_root, argv, args, sync_lists, has_error, wait_interval,
                    gi, lock_owner, lock_attempts, lock_acquired, lock_failed, lock_released,
                    stderr, result, exc, exit_status, call >>

\* rsync.sync returns: the loop goes on with the next sync.
TransferSucceeds(r) ==
    /\ pc[r] = "rsync"
    /\ transfers' = [transfers EXCEPT ![r] = Outcome(r, "ok")]
    /\ si' = [si EXCEPT ![r] = si[r] + 1]
    /\ pc' = [pc EXCEPT ![r] = "sync_loop"]
    /\ UNCHANGED << euid_root, argv, args, sync_lists, has_error, wait_interval,
                    gi, lock_owner, lock_attempts, lock_acquired, lock_failed, lock_released,
                    stderr, result, exc, exit_status, call >>

\* Mutant of TransferFails: args.fail_fast is ignored, the error is always
\* recorded and the loop goes on.
TransferFails_NeverReturns(r) ==
    /\ pc[r] = "rsync"
    /\ transfers' = [transfers EXCEPT ![r] = Outcome(r, "RsyncError")]
    /\ stderr' = [stderr EXCEPT ![r] = Append(@, <<"RsyncError.stderr", sync(r).name>>)]
    /\ has_error' = [has_error EXCEPT ![r] = TRUE]
    /\ si' = [si EXCEPT ![r] = si[r] + 1]
    /\ pc' = [pc EXCEPT ![r] = "sync_loop"]
    /\ UNCHANGED << euid_root, argv, args, sync_lists, wait_interval, gi,
                    lock_owner, lock_attempts, lock_acquired, lock_failed, lock_released,
                    result, exc, exit_status, call >>

\* Mutant of TransferFails: the error is not recorded in has_error.
TransferFails_NotRecorded(r) ==
    /\ pc[r] = "rsync"
    /\ transfers' = [transfers EXCEPT ![r] = Outcome(r, "RsyncError")]
    /\ stderr' = [stderr EXCEPT ![r] = Append(@, <<"RsyncError.stderr", sync(r).name>>)]
    /\ IF Args(r).fail_fast
       THEN /\ result' = [result EXCEPT ![r] = Some(1)]
            /\ lock_owner' = Unlocked(r)
            /\ lock_released' = Released(r)
            /\ pc' = [pc EXCEPT ![r] = "returned"]
            /\ UNCHANGED << has_error, si >>
       ELSE /\ si' = [si EXCEPT ![r] = si[r] + 1]
            /\ pc' = [pc EXCEPT ![r] = "sync_loop"]
            /\ UNCHANGED << has_error, result, lock_owner, lock_released >>
    /\ UNCHANGED << euid_root, argv, args, sync_lists, wait_interval, gi,
                    lock_attempts, lock_acquired, lock_failed, exc, exit_status,
                    call >>

\* Mutant of TransferFails: the fail-fast return does not pass through the
\* exit of the flock_wait block, the lock file stays held.
TransferFails_KeepsLock(r) ==
    /\ pc[r] = "rsync"
    /\ transfers' = [transfers EXCEPT ![r] = Outcome(r, "RsyncError")]
    /\ stderr' = [stderr EXCEPT ![r] = Append(@, <<"RsyncError.stderr", sync(r).name>>)]
    /\ IF Args(r).fail_fast
       THEN /\ result' = [result EXCEPT ![r] = Some(1)]
            /\ pc' = [pc EXCEPT ![r] = "returned"]
            /\ UNCHANGED << has_error, si >>
       ELSE /\ has_error' = [has_error EXCEPT ![r] = TRUE]
            /\ si' = [si EXCEPT ![r] = si[r] + 1]
            /\ pc' = [pc EXCEPT ![r] = "sync_loop"]
            /\ UNCHANGED result
    /\ UNCHANGED << euid_root, argv, args, sync_lists, wait_interval, gi,
                    lock_owner, lock_attempts, lock_acquired, lock_failed, lock_released, exc,
                    exit_status, call >>

\* Mutant of TransferFails: a recorded error leaves the flock_wait block, so
\* the lock file is released before the next sync.
TransferFails_DropsLock(r) ==
    /\ pc[r] = "rsync"
    /\ transfers' = [transfers EXCEPT ![r] = Outcome(r, "RsyncError")]
    /\ stderr' = [stderr EXCEPT ![r] = Append(@, <<"RsyncError.stderr", sync(r).name>>)]
    /\ lock_owner' = Unlocked(r)
    /\ lock_released' = Released(r)
    /\ IF Args(r).fail_fast
       THEN /\ result' = [result EXCEPT ![r] = Some(1)]
            /\ pc' = [pc EXCEPT ![r] = "returned"]
            /\ UNCHANGED << has_error, si >>
       ELSE /\ has_error' = [has_error EXCEPT ![r] = TRUE]
            /\ si' = [si EXCEPT ![r] = si[r] + 1]
            /\ pc' = [pc EXCEPT ![r] = "sync_loop"]
            /\ UNCHANGED result
    /\ UNCHANGED << euid_root, argv, args, sync_lists, wait_interval, gi,
                    lock_attempts, lock_acquired, lock_failed, exc, exit_status,
                    call >>

\* Mutant of TransferFails: with fail_fast, 1 is returned before e.stderr is
\* printed.
TransferFails_SilentFailFast(r) ==
    /\ pc[r] = "rsync"
    /\ transfers' = [transfers EXCEPT ![r] = Outcome(r, "RsyncError")]
    /\ IF Args(r).fail_fast
       THEN /\ result' = [result EXCEPT ![r] = Some(1)]
            /\ lock_owner' = Unlocked(r)
            /\ lock_released' = Released(r)
            /\ pc' = [pc EXCEPT ![r] = "returned"]
            /\ UNCHANGED << has_error, si, stderr >>
       ELSE /\ stderr' = [stderr EXCEPT ![r] =
                   Append(@, <<"RsyncError.stderr", sync(r).name>>)]
            /\ has_error' = [has_error EXCEPT ![r] = TRUE]
            /\ si' = [si EXCEPT ![r] = si[r] + 1]
            /\ pc' = [pc EXCEPT ![r] = "sync_loop"]
            /\ UNCHANGED << result, lock_owner, lock_released >>
    /\ UNCHANGED << euid_root, argv, args, sync_lists, wait_interval, gi,
                    lock_attempts, lock_acquired, lock_failed, exc, exit_status,
                    call >>

\* except RsyncError as e: print(e.stderr, file=sys.stderr);
\* if args.fail_fast: return 1 (leaving the flock_wait block);
\* has_error = True
TransferFails(r) ==
    /\ pc[r] = "rsync"
    /\ transfers' = [transfers EXCEPT ![r] = Outcome(r, "RsyncError")]
    /\ stderr' = [stderr EXCEPT ![r] = Append(@, <<"RsyncError.stderr", sync(r).name>>)]
    /\ IF Args(r).fail_fast
       THEN /\ result' = [result EXCEPT ![r] = Some(1)]
            /\ lock_owner' = Unlocked(r)
            /\ lock_released' = Released(r)
            /\ pc' = [pc EXCEPT ![r] = "returned"]
            /\ UNCHANGED << has_error, si >>
       ELSE /\ has_error' = [has_error EXCEPT ![r] = TRUE]
            /\ si' = [si EXCEPT ![r] = si[r] + 1]
            /\ pc' = [pc EXCEPT ![r] = "sync_loop"]
            /\ UNCHANGED << result, lock_owner, lock_released >>
    /\ UNCHANGED << euid_root, argv, args, sync_lists, wait_interval, gi,
                    lock_attempts, lock_acquired, lock_failed, exc, exit_status,
                    call >>

\* Mutant of TransferRaises: the except clause catches every exception; the
\* error is recorded and the loop goes on.
TransferRaises_Recorded(r) ==
    /\ pc[r] = "rsync"
    /\ transfers' = [transfers EXCEPT ![r] = Outcome(r, "Exception")]
    /\ has_error' = [has_error EXCEPT ![r] = TRUE]
    /\ si' = [si EXCEPT ![r] = si[r] + 1]
    /\ pc' = [pc EXCEPT ![r] = "sync_loop"]
    /\ UNCHANGED << euid_root, argv, args, sync_lists, wait_interval, gi,
                    lock_owner, lock_attempts, lock_acquired, lock_failed,
                    lock_released, stderr, result, exc, exit_status, call >>

\* rsync.sync raises an exception that is no RsyncError: no except clause of
\* feed_sync matches, the exception leaves the flock_wait block and feed_sync.
TransferRaises(r) ==
    /\ pc[r] = "rsync"
    /\ transfers' = [transfers EXCEPT ![r] = Outcome(r, "Exception")]
    /\ exc' = [exc EXCEPT ![r] = "Exception"]
    /\ lock_owner' = Unlocked(r)
    /\ lock_released' = Released(r)
    /\ pc' = [pc EXCEPT ![r] = "raised"]
    /\ UNCHANGED << euid_root, argv, args, sync_lists, has_error, wait_interval,
                    gi, si, lock_attempts, lock_acquired, lock_failed, stderr,
                    result, exit_status, call >>

\* Mutant of LeaveFlockBlock: the lock file is not released at the end of
\* the loop over the syncs.
LeaveFlockBlock_KeepsLock(r) ==
    /\ pc[r] = "sync_loop"
    /\ si[r] > Len(sync_list(r).syncs)
    /\ gi' = [gi EXCEPT ![r] = gi[r] + 1]
    /\ pc' = [pc EXCEPT ![r] = "group_loop"]
    /\ UNCHANGED << euid_root, argv, args, sync_lists, has_error, wait_interval,
                    si, lock_owner, lock_attempts, lock_acquired, lock_failed, lock_released,
                    transfers, stderr, result, exc, exit_status, call >>

\* The loop over sync_list.syncs is exhausted: the flock_wait block is left
\* and the loop over the sync lists goes on.
LeaveFlockBlock(r) ==
    /\ pc[r] = "sync_loop"
    /\ si[r] > Len(sync_list(r).syncs)
    /\ lock_owner' = Unlocked(r)
    /\ lock_released' = Released(r)
    /\ gi' = [gi EXCEPT ![r] = gi[r] + 1]
    /\ pc' = [pc EXCEPT ![r] = "group_loop"]
    /\ UNCHANGED << euid_root, argv, args, sync_lists, has_error, wait_interval,
                    si, lock_attempts, lock_acquired, lock_failed, transfers,
                    stderr, result, exc, exit_status, call >>

\* Mutant of ReturnResult: feed_sync returns 0 whatever has_error is.
ReturnResult_AlwaysZero(r) ==
    /\ pc[r] = "group_loop"
    /\ gi[r] > Len(sync_lists[r])
    /\ result' = [result EXCEPT ![r] = Some(0)]
    /\ pc' = [pc EXCEPT ![r] = "returned"]
    /\ UNCHANGED << euid_root, argv, args, sync_lists, has_error, wait_interval,
                    gi, si, lock_owner, lock_attempts, lock_acquired, lock_failed, lock_released,
                    transfers, stderr, exc, exit_status, call >>

\* return 1 if has_error else 0
ReturnResult(r) ==
    /\ pc[r] = "group_loop"
    /\ gi[r] > Len(sync_lists[r])
    /\ result' = [result EXCEPT ![r] = Some(IF has_error[r] THEN 1 ELSE 0)]
    /\ pc' = [pc EXCEPT ![r] = "returned"]
    /\ UNCHANGED << euid_root, argv, args, sync_lists, has_error, wait_interval,
                    gi, si, lock_owner, lock_attempts, lock_acquired, lock_failed, lock_released,
                    transfers, stderr, exc, exit_status, call >>

\* The run is interrupted (SIGINT) while it is suspended in flock_wait or in
\* rsync.sync: asyncio.run cancels feed_sync, which unwinds through the
\* flock_wait block, and raises KeyboardInterrupt in main.
Interrupt(r) ==
    /\ pc[r] \in {"flock_wait", "rsync"}
    /\ transfers' = [transfers EXCEPT ![r] =
           IF pc[r] = "rsync" THEN Outcome(r, "interrupted") ELSE @]
    /\ exc' = [exc EXCEPT ![r] = "KeyboardInterrupt"]
    /\ lock_owner' = Unlocked(r)
    /\ lock_released' = Released(r)
    /\ pc' = [pc EXCEPT ![r] = "raised"]
    /\ UNCHANGED << euid_root, argv, args, sync_lists, has_error, wait_interval,
                    gi, si, lock_attempts, lock_acquired, lock_failed, stderr,
                    result, exit_status, call >>

\* ------------------------------------------------------------------------
\* main
\* ------------------------------------------------------------------------

\* sys.exit(asyncio.run(feed_sync())) with feed_sync having returned.
ExitWithResult(r) ==
    /\ pc[r] = "returned"
    /\ exit_status' = [exit_status EXCEPT ![r] = result[r]]
    /\ pc' = [pc EXCEPT ![r] = "exited"]
    /\ UNCHANGED << euid_root, argv, args, sync_lists, has_error, wait_interval,
                    gi, si, lock_owner, lock_attempts, lock_acquired, lock_failed, lock_released,
                    transfers, stderr, result, exc, call >>

\* Mutant of HandleGreenboneFeedSyncError: the message is printed and main
\* ends without sys.exit(1), so the process exits with status 0.
HandleGreenboneFeedSyncError_NoExit(r) ==
    /\ pc[r] = "raised"
    /\ exc[r] = "GreenboneFeedSyncError"
    /\ stderr' = [stderr EXCEPT ![r] = Append(@, <<"GreenboneFeedSyncError", "str(e)">>)]
    /\ exit_status' = [exit_status EXCEPT ![r] = Some(0)]
    /\ pc' = [pc EXCEPT ![r] = "exited"]
    /\ UNCHANGED << euid_root, argv, args, sync_lists, has_error, wait_interval,
                    gi, si, lock_owner, lock_attempts, lock_acquired, lock_failed, lock_released,
                    transfers, result, exc, call >>

\* Mutant of HandleGreenboneFeedSyncError: the process exits with status 1
\* without printing the error.
HandleGreenboneFeedSyncError_Silent(r) ==
    /\ pc[r] = "raised"
    /\ exc[r] = "GreenboneFeedSyncError"
    /\ exit_status' = [exit_status EXCEPT ![r] = Some(1)]
    /\ pc' = [pc EXCEPT ![r] = "exited"]
    /\ UNCHANGED << euid_root, argv, args, sync_lists, has_error, wait_interval,
                    gi, si, lock_owner, lock_attempts, lock_acquired, lock_failed, lock_released,
                    transfers, stderr, result, exc, call >>

\* except GreenboneFeedSyncError as e: print(str(e), file=sys.stderr); sys.exit(1)
HandleGreenboneFeedSyncError(r) ==
    /\ pc[r] = "raised"
    /\ exc[r] = "GreenboneFeedSyncError"
    /\ stderr' = [stderr EXCEPT ![r] = Append(@, <<"GreenboneFeedSyncError", "str(e)">>)]
    /\ exit_status' = [exit_status EXCEPT ![r] = Some(1)]
    /\ pc' = [pc EXCEPT ![r] = "exited"]
    /\ UNCHANGED << euid_root, argv, args, sync_lists, has_error, wait_interval,
                    gi, si, lock_owner, lock_attempts, lock_acquired, lock_failed, lock_released,
                    transfers, result, exc, call >>

\* except KeyboardInterrupt: sys.exit(1)
HandleKeyboardInterrupt(r) ==
    /\ pc[r] = "raised"
    /\ exc[r] = "KeyboardInterrupt"
    /\ exit_status' = [exit_status EXCEPT ![r] = Some(1)]
    /\ pc' = [pc EXCEPT ![r] = "exited"]
    /\ UNCHANGED << euid_root, argv, args, sync_lists, has_error, wait_interval,
                    gi, si, lock_owner, lock_attempts, lock_acquired, lock_failed, lock_released,
                    transfers, stderr, result, exc, call >>

\* No except clause of main matches: the exception leaves main, the
\* interpreter prints the traceback to sys.stderr and exits with status 1.
UnhandledException(r) ==
    /\ pc[r] = "raised"
    /\ exc[r] = "Exception"
    /\ stderr' = [stderr EXCEPT ![r] = Append(@, <<"Traceback", "Exception">>)]
    /\ exit_status' = [exit_status EXCEPT ![r] = Some(1)]
    /\ pc' = [pc EXCEPT ![r] = "exited"]
    /\ UNCHANGED << euid_root, argv, args, sync_lists, has_error, wait_interval,
                    gi, si, lock_owner, lock_attempts, lock_acquired, lock_failed, lock_released,
                    transfers, result, exc, call >>

\* ------------------------------------------------------------------------
\* The other processes using the lock files
\* ------------------------------------------------------------------------

\* Another process takes a free lock file.
OtherLocks(l) ==
    /\ lock_owner[l] = "free"
    /\ lock_owner' = [lock_owner EXCEPT ![l] = "other"]
    /\ UNCHANGED << euid_root, argv, pc, args, sync_lists, has_error,
                    wait_interval, gi, si, lock_attempts, lock_acquired,
                    lock_failed, lock_released, transfers, stderr, result, exc, exit_status, call >>

\* The other process releases the lock file it holds.
OtherUnlocks(l) ==
    /\ lock_owner[l] = "other"
    /\ lock_owner' = [lock_owner EXCEPT ![l] = "free"]
    /\ UNCHANGED << euid_root, argv, pc, args, sync_lists, has_error,
                    wait_interval, gi, si, lock_attempts, lock_acquired,
                    lock_failed, lock_released, transfers, stderr, result, exc, exit_status, call >>

\* ------------------------------------------------------------------------
\* Specification of one run of the tool
\* ------------------------------------------------------------------------

Next ==
    \/ \E r \in Runs : CheckRoot(r)
    \/ \E r \in Runs : ParseArguments(r)
    \/ \E r \in Runs : BuildSyncLists(r)
    \/ \E r \in Runs : SkipEmptySyncList(r)
    \/ \E r \in Runs : EnterFlockWait(r)
    \/ \E r \in Runs : FlockAcquire(r)
    \/ \E r \in Runs : FlockFail(r)
    \/ \E r \in Runs : StartTransfer(r)
    \/ \E r \in Runs : TransferSucceeds(r)
    \/ \E r \in Runs : TransferFails(r)
    \/ \E r \in Runs : TransferRaises(r)
    \/ \E r \in Runs : LeaveFlockBlock(r)
    \/ \E r \in Runs : ReturnResult(r)
    \/ \E r \in Runs : Interrupt(r)
    \/ \E r \in Runs : ExitWithResult(r)
    \/ \E r \in Runs : HandleGreenboneFeedSyncError(r)
    \/ \E r \in Runs : HandleKeyboardInterrupt(r)
    \/ \E r \in Runs : UnhandledException(r)
    \/ \E l \in LockFiles : OtherLocks(l)
    \/ \E l \in LockFiles : OtherUnlocks(l)

Spec == Init /\ [][Next]_vars

\* ------------------------------------------------------------------------
\* Specification of filter_syncs as a function of its arguments
\* ------------------------------------------------------------------------

\* The longest candidate list filter_syncs is called with.
MaxLen == 3

\* The feed types filter_syncs is called with: the tags, and one no sync has.
FilterFeedTypes == FeedTypes \cup {"unknown"}

\* The candidate lists: every list of configured syncs up to MaxLen, in any
\* order and with repetitions.
CandidateLists == UNION {[1..n -> AllSyncs] : n \in 0..MaxLen}

FilterInit ==
    /\ RunsInit({})
    /\ \A l \in LockFiles : lock_owner[l] = "free"
    /\ call \in [lock_file : LockFiles, feed_type : FilterFeedTypes,
                 syncs : CandidateLists, result : {None}, again : {None}]

\* filter_syncs(lock_file, feed_type, *syncs) is called and returns.
CallFilterSyncs ==
    /\ call.result = None
    /\ call' = [call EXCEPT !.result =
           Some(filter_syncs(call.lock_file, call.feed_type, call.syncs))]
    /\ UNCHANGED run_vars

\* filter_syncs is called again with the same lock file and feed type on
\* the syncs of the sync list it returned.
ReapplyFilterSyncs ==
    /\ call.result # None
    /\ call.again = None
    /\ call' = [call EXCEPT !.again =
           Some(filter_syncs(call.lock_file, call.feed_type, call.result[1].syncs))]
    /\ UNCHANGED run_vars

FilterNext == CallFilterSyncs \/ ReapplyFilterSyncs

SpecFilter == FilterInit /\ [][FilterNext]_vars

\* ------------------------------------------------------------------------
\* Vocabulary of the properties
\* ------------------------------------------------------------------------

\* The names of the syncs run r has started a transfer for, in order.
Names(r) == [k \in 1..Len(transfers[r]) |-> transfers[r][k].name]

\* The configured syncs in declaration order: the openvas ones, then the
\* gvmd ones.
Declared == OpenvasCandidates \o GvmdCandidates

\* The names of the declared syncs tagged with feed type t, in declaration
\* order: the syncs a run asked for t has to transfer.
SelectedNames(t) ==
    LET sel == SelectSeq(Declared, LAMBDA s : t \in s.types)
    IN  [k \in 1..Len(sel) |-> sel[k].name]

\* The candidates of the sync list guarded by lock file l.
CandidatesOf(l) == IF l = OpenvasLockFile THEN OpenvasCandidates ELSE GvmdCandidates

\* The lock files run r holds.
Held(r) == {l \in LockFiles : lock_owner[l] = r}

\* s is a prefix of t.
IsPrefix(s, t) == Len(s) <= Len(t) /\ \A k \in 1..Len(s) : s[k] = t[k]

\* Run r has parsed its arguments and they (do not) ask for fail-fast.
FailFast(r) == args[r] # None /\ Args(r).fail_fast
Continue(r) == args[r] # None /\ ~Args(r).fail_fast

\* ------------------------------------------------------------------------
\* Properties
\* ------------------------------------------------------------------------

\* C1: with fail_fast, a transfer that failed with RsyncError is the last
\* transfer of the run: no later sync of the list is transferred, no later
\* lock file is requested or acquired, and feed_sync has returned 1.
C1_FailFastAborts ==
    \A r \in Runs : FailFast(r) =>
        \A k \in 1..Len(transfers[r]) :
            transfers[r][k].outcome = "RsyncError" =>
                /\ k = Len(transfers[r])
                /\ pc[r] \in {"returned", "exited"}
                /\ result[r] = Some(1)
                /\ lock_attempts[r][Len(lock_attempts[r])].lock_file
                       = transfers[r][k].lock_file
                /\ lock_acquired[r][Len(lock_acquired[r])] = transfers[r][k].lock_file

\* C1 witness: a fail-fast run asked for everything whose first transfer
\* failed has exited.
C1_Witness ==
    /\ FailFast(MainRun)
    /\ Args(MainRun).type = "all"
    /\ Len(transfers[MainRun]) = 1
    /\ transfers[MainRun][1].outcome = "RsyncError"
    /\ pc[MainRun] = "exited"

\* C2: without fail_fast, once feed_sync has returned, every selected sync
\* of every list has been transferred, whatever transfers failed, and the
\* value returned is 1 if some transfer failed with RsyncError and 0 if none.
C2_ContinueOnError ==
    \A r \in Runs : (Continue(r) /\ result[r] # None) =>
        /\ Names(r) = SelectedNames(Args(r).type)
        /\ \A k \in 1..Len(transfers[r]) : transfers[r][k].outcome \in {"ok", "RsyncError"}
        /\ result[r] \in {Some(0), Some(1)}
        /\ result[r] = Some(1) <=>
               \E k \in 1..Len(transfers[r]) : transfers[r][k].outcome = "RsyncError"

\* C2 witness: a run without fail_fast asked for everything, its first
\* transfer failed, the six others succeeded, and it returned 1.
C2_Witness ==
    /\ Continue(MainRun)
    /\ Len(transfers[MainRun]) = 7
    /\ transfers[MainRun][1].outcome = "RsyncError"
    /\ \A k \in 2..7 : transfers[MainRun][k].outcome = "ok"
    /\ result[MainRun] = Some(1)

\* C3: a run holds a lock file only inside the flock_wait block of the sync
\* list the lock guards; after the block is left, on any path (the list is
\* exhausted, with or without recorded errors, fail-fast return, exception,
\* interruption), and after the run has ended, it holds none.
C3_LockReleased ==
    \A r \in Runs :
        /\ pc[r] \notin {"sync_loop", "rsync"} => Held(r) = {}
        /\ pc[r] \in {"sync_loop", "rsync"} => Held(r) = {sync_list(r).lock_file}

\* C3 witness: a run interrupted during a transfer, hence inside the block,
\* has exited.
C3_Witness ==
    /\ pc[MainRun] = "exited"
    /\ exc[MainRun] = "KeyboardInterrupt"
    /\ lock_acquired[MainRun] # <<>>
    /\ transfers[MainRun] # <<>>
    /\ transfers[MainRun][Len(transfers[MainRun])].outcome = "interrupted"

\* C4: the lock file of a sync list is requested, and acquired, only if a
\* candidate of the list is tagged with the requested feed type; a run that
\* returns without a failed transfer has requested exactly those.
C4_EmptyListNoLock ==
    \A r \in Runs :
        /\ \A k \in 1..Len(lock_attempts[r]) :
               \E s \in Range(CandidatesOf(lock_attempts[r][k].lock_file)) :
                   Args(r).type \in s.types
        /\ \A k \in 1..Len(lock_acquired[r]) :
               \E s \in Range(CandidatesOf(lock_acquired[r][k])) :
                   Args(r).type \in s.types
        /\ (Continue(r) /\ result[r] # None) =>
               {lock_attempts[r][k].lock_file : k \in 1..Len(lock_attempts[r])}
                   = {l \in LockFiles :
                         \E s \in Range(CandidatesOf(l)) : Args(r).type \in s.types}

\* C4 witness: a run asked for a feed type only gvmd syncs have has taken
\* the gvmd lock, started a transfer and never asked for the openvas lock.
C4_Witness ==
    /\ args[MainRun] # None
    /\ Args(MainRun).type = "scap"
    /\ lock_acquired[MainRun] = <<GvmdLockFile>>
    /\ Len(lock_attempts[MainRun]) = 1
    /\ transfers[MainRun] # <<>>

\* C5: a run with effective user id 0 never parses arguments, builds sync
\* lists, requests a lock file nor starts a transfer; it ends with the
\* GreenboneFeedSyncError, whose message is written to stderr, and status 1.
C5_RootAborts ==
    \A r \in Runs : (euid_root[r] /\ pc[r] # "absent") =>
        /\ pc[r] \in {"start", "raised", "exited"}
        /\ args[r] = None
        /\ sync_lists[r] = <<>>
        /\ lock_attempts[r] = <<>> /\ lock_acquired[r] = <<>> /\ Held(r) = {}
        /\ transfers[r] = <<>>
        /\ result[r] = None
        /\ pc[r] # "start" => exc[r] = "GreenboneFeedSyncError"
        /\ pc[r] = "exited" =>
               /\ exit_status[r] = Some(1)
               /\ stderr[r] = << <<"GreenboneFeedSyncError", "str(e)">> >>

\* C5 witness: a run with effective user id 0 has exited.
C5_Witness == euid_root[MainRun] /\ pc[MainRun] = "exited"

\* out is exactly the subsequence of S of the syncs tagged with t: the
\* positions of S holding such a sync, taken in increasing order, give out.
IsFiltered(out, S, t) ==
    LET I == {j \in 1..Len(S) : t \in S[j].types}
    IN  /\ Len(out) = Cardinality(I)
        /\ \E f \in [1..Len(out) -> I] :
               /\ \A a, b \in 1..Len(out) : a < b => f[a] < f[b]
               /\ \A k \in 1..Len(out) : out[k] = S[f[k]]

\* C6: filter_syncs returns for every lock file, feed type and candidate
\* list: the sync list returned has the given lock file, and its syncs are
\* exactly the candidates tagged with the feed type, in their order, each as
\* often as it occurs; none when no candidate has the tag.
C6_FilterSubsequence ==
    /\ call.result = None => ENABLED CallFilterSyncs
    /\ call.result # None =>
           /\ call.result[1].lock_file = call.lock_file
           /\ IsFiltered(call.result[1].syncs, call.syncs, call.feed_type)
           /\ (\A j \in 1..Len(call.syncs) : call.feed_type \notin call.syncs[j].types)
                  => call.result[1].syncs = <<>>

\* C6 witness: filter_syncs returned two syncs of three candidates, the one
\* dropped standing between the two kept, which differ.
C6_Witness ==
    /\ call.result # None
    /\ Len(call.syncs) = 3
    /\ call.feed_type \notin call.syncs[2].types
    /\ call.syncs[1] # call.syncs[3]
    /\ call.result[1].syncs = <<call.syncs[1], call.syncs[3]>>

\* The lock files in the order the loop of feed_sync visits their lists.
LockOrder == <<OpenvasLockFile, GvmdLockFile>>

\* C7: a run holds at most one lock file; it holds none while it requests
\* one; it requests the openvas lock before the gvmd lock, each at most
\* once; and when it requests or holds the gvmd lock, every transfer of the
\* openvas list has ended and the openvas lock is not held by it.
C7_SequentialGroups ==
    \A r \in Runs :
        /\ Cardinality(Held(r)) <= 1
        /\ pc[r] = "flock_wait" => Held(r) = {}
        /\ \A a, b \in 1..Len(lock_attempts[r]) :
               a < b => /\ lock_attempts[r][a].lock_file = OpenvasLockFile
                        /\ lock_attempts[r][b].lock_file = GvmdLockFile
        /\ (\E k \in 1..Len(lock_attempts[r]) :
                lock_attempts[r][k].lock_file = GvmdLockFile) =>
               /\ lock_owner[OpenvasLockFile] # r
               /\ \A k \in 1..Len(transfers[r]) :
                      transfers[r][k].lock_file = OpenvasLockFile
                          => transfers[r][k].outcome # "pending"

\* C7 witness: a run that held the openvas lock is transferring under the
\* gvmd lock while another process holds the openvas lock.
C7_Witness ==
    /\ lock_acquired[MainRun] = LockOrder
    /\ pc[MainRun] = "rsync"
    /\ lock_owner[OpenvasLockFile] = "other"
    /\ lock_owner[GvmdLockFile] = MainRun

\* The names of the syncs in declaration order.
DeclaredNames ==
    << "Notus files", "NASL files", "SCAP data", "CERT-Bund data",
       "report formats", "scan configs", "port lists" >>

\* C8: the transfers of a run are started in declaration order, none
\* skipped or repeated: they are a prefix of the selected syncs; only the
\* last one can be without outcome, and only while the run awaits it; a run
\* asked for everything whose transfers all succeeded has started the seven
\* transfers in declaration order and returns 0.
C8_DeclaredOrder ==
    \A r \in Runs :
        /\ transfers[r] # <<>> => IsPrefix(Names(r), SelectedNames(Args(r).type))
        /\ \A k \in 1..Len(transfers[r]) :
               transfers[r][k].outcome = "pending"
                   <=> (k = Len(transfers[r]) /\ pc[r] = "rsync")
        /\ \A k \in 1..Len(transfers[r]) :
               \E s \in Range(CandidatesOf(transfers[r][k].lock_file)) :
                   /\ s.name = transfers[r][k].name
                   /\ s.url = transfers[r][k].url
                   /\ s.destination = transfers[r][k].destination
        /\ ( /\ pc[r] \in {"returned", "exited"}
             /\ exc[r] = "none"
             /\ Args(r).type = "all"
             /\ \A k \in 1..Len(transfers[r]) : transfers[r][k].outcome = "ok" )
               => (Names(r) = DeclaredNames /\ result[r] = Some(0))

\* C8 witness: a run asked for everything whose seven transfers succeeded
\* has returned.
C8_Witness ==
    /\ pc[MainRun] = "returned"
    /\ Len(transfers[MainRun]) = 7
    /\ \A k \in 1..7 : transfers[MainRun][k].outcome = "ok"

\* C9: after flock_wait failed for a lock file, with or without fail_fast,
\* the exception has left feed_sync without a return value, the failed
\* request is the last one, no transfer guarded by that lock file was
\* started, and the run exits with status 1.
C9_LockFailureAborts ==
    \A r \in Runs : lock_failed[r] # "none" =>
        /\ pc[r] \in {"raised", "exited"}
        /\ result[r] = None
        /\ exc[r] \in FlockErrors
        /\ lock_attempts[r][Len(lock_attempts[r])].lock_file = lock_failed[r]
        /\ \A k \in 1..Len(lock_acquired[r]) : lock_acquired[r][k] # lock_failed[r]
        /\ \A k \in 1..Len(transfers[r]) : transfers[r][k].lock_file # lock_failed[r]
        /\ lock_failed[r] = OpenvasLockFile =>
               (transfers[r] = <<>> /\ Len(lock_attempts[r]) = 1)
        /\ Held(r) = {}
        /\ pc[r] = "exited" => exit_status[r] = Some(1)

\* C9 witness: a run without fail_fast asked for everything has exited
\* after flock_wait failed for the openvas lock.
C9_Witness ==
    /\ Continue(MainRun)
    /\ Args(MainRun).type = "all"
    /\ lock_failed[MainRun] = OpenvasLockFile
    /\ pc[MainRun] = "exited"

\* C10: a run exits with status 0 or 1; with 0 exactly when feed_sync
\* returned after every selected sync was transferred successfully; hence
\* with 1 when a transfer failed, when the run ended with an exception
\* (GreenboneFeedSyncError, KeyboardInterrupt or other) and when a selected
\* sync was not transferred.
C10_ExitStatus ==
    \A r \in Runs : pc[r] = "exited" =>
        /\ exit_status[r] \in {Some(0), Some(1)}
        /\ exit_status[r] = Some(0) <=>
               /\ exc[r] = "none"
               /\ args[r] # None
               /\ Names(r) = SelectedNames(Args(r).type)
               /\ \A k \in 1..Len(transfers[r]) : transfers[r][k].outcome = "ok"

\* C10 witness: a run without fail_fast exits with status 1 after its last
\* transfer only failed.
C10_Witness ==
    /\ pc[MainRun] = "exited"
    /\ Continue(MainRun)
    /\ Len(transfers[MainRun]) = 7
    /\ \A k \in 1..6 : transfers[MainRun][k].outcome = "ok"
    /\ transfers[MainRun][7].outcome = "RsyncError"
    /\ exit_status[MainRun] = Some(1)

\* Something of the given kind was written to the stderr of run r.
Written(r, kind) == \E k \in 1..Len(stderr[r]) : stderr[r][k][1] = kind

\* The errors of run r other than an interruption are on its stderr: the
\* message of a GreenboneFeedSyncError, the traceback of another exception,
\* and the diagnostic output of every transfer that failed with RsyncError.
ErrorsSurfaced(r) ==
    /\ exc[r] = "GreenboneFeedSyncError" => Written(r, "GreenboneFeedSyncError")
    /\ exc[r] = "Exception" => Written(r, "Traceback")
    /\ \A k \in 1..Len(transfers[r]) :
           transfers[r][k].outcome = "RsyncError" =>
               \E j \in 1..Len(stderr[r]) :
                   stderr[r][j] = <<"RsyncError.stderr", transfers[r][k].name>>

\* C11 as stated: a run that exited with status 1 has written to stderr
\* about the error that made it fail, an interruption included.
C11_AllErrorsSurfaced ==
    \A r \in Runs : (pc[r] = "exited" /\ exit_status[r] = Some(1)) =>
        /\ ErrorsSurfaced(r)
        /\ exc[r] = "KeyboardInterrupt" => stderr[r] # <<>>

\* C11 as amended: a run that exited with status 1 because of a
\* GreenboneFeedSyncError (root identity, failed lock acquisition), another
\* exception or a failed transfer has written about it to stderr; an
\* interruption itself writes nothing.
C11_ErrorsButInterruptSurfaced ==
    \A r \in Runs : (pc[r] = "exited" /\ exit_status[r] = Some(1)) =>
        /\ ErrorsSurfaced(r)
        /\ exc[r] # "KeyboardInterrupt" => stderr[r] # <<>>
        /\ exc[r] = "KeyboardInterrupt" =>
               \A j \in 1..Len(stderr[r]) : stderr[r][j][1] = "RsyncError.stderr"

\* C11 witness: a run whose lock acquisition failed with a
\* GreenboneFeedSyncError has exited with the error on stderr.
C11_Witness ==
    /\ pc[MainRun] = "exited"
    /\ lock_failed[MainRun] # "none"
    /\ exc[MainRun] = "GreenboneFeedSyncError"
    /\ Written(MainRun, "GreenboneFeedSyncError")

\* Filtering the syncs of a filtered sync list again gives the same sync list.
FilterIdempotent == call.again # None => call.again = call.result

\* C12: filter_syncs is idempotent: applied with the same lock file and feed
\* type to the syncs it returned, it returns the same sync list (same lock
\* file, same syncs in the same order); and no call changes the lock file,
\* the feed type or the candidates (with their types) it was given.
C12_FilterIdempotent ==
    /\ []FilterIdempotent
    /\ [][ /\ call'.lock_file = call.lock_file
           /\ call'.feed_type = call.feed_type
           /\ call'.syncs = call.syncs
           /\ call.result # None => call'.result = call.result ]_vars

\* C12 witness: filter_syncs was applied again to a sync list of two
\* different syncs it had kept of three candidates.
C12_Witness ==
    /\ call.again # None
    /\ Len(call.syncs) = 3
    /\ Len(call.result[1].syncs) = 2
    /\ call.result[1].syncs[1] # call.result[1].syncs[2]

\* The lock files of the sync lists with a candidate tagged with feed type
\* t, in the order the loop of feed_sync visits them.
NonEmptyLocks(t) ==
    SelectSeq(LockOrder, LAMBDA l : \E s \in Range(CandidatesOf(l)) : t \in s.types)

\* C13: in a run without fail_fast, from the acquisition of a lock file to
\* the end of the loop over its syncs, whatever transfers failed, the lock
\* file is held and nothing has been released since; no lock file is
\* acquired twice; and when feed_sync returns, the lock file of every
\* non-empty sync list has been acquired once and released once.
C13_LockHeldAcrossErrors ==
    \A r \in Runs : Continue(r) =>
        /\ pc[r] \in {"sync_loop", "rsync"} =>
               /\ lock_owner[sync_list(r).lock_file] = r
               /\ lock_acquired[r] = Append(lock_released[r], sync_list(r).lock_file)
        /\ pc[r] \notin {"sync_loop", "rsync"} => lock_released[r] = lock_acquired[r]
        /\ \A a, b \in 1..Len(lock_acquired[r]) :
               lock_acquired[r][a] = lock_acquired[r][b] => a = b
        /\ result[r] # None =>
               /\ lock_acquired[r] = NonEmptyLocks(Args(r).type)
               /\ lock_released[r] = NonEmptyLocks(Args(r).type)

\* C13 witness: a run without fail_fast whose first gvmd transfer failed is
\* transferring the fifth gvmd sync under the lock acquired for the first.
C13_Witness ==
    /\ Continue(MainRun)
    /\ pc[MainRun] = "rsync"
    /\ Len(transfers[MainRun]) = 7
    /\ transfers[MainRun][3].outcome = "RsyncError"
    /\ lock_acquired[MainRun] = LockOrder
    /\ lock_released[MainRun] = <<OpenvasLockFile>>

\* ------------------------------------------------------------------------
\* Specification of two concurrent runs of the tool
\* ------------------------------------------------------------------------

\* The feed types of the concurrent runs: both sync lists, the openvas list
\* only, the gvmd list only.
ConcFeedTypes == {"all", "nvt", "scap"}

\* The run of the concurrent specification that is always started with
\* fail_fast (the other one is started with or without).
FailFastRun == "run2"

\* Two runs are started by an unprivileged user, each with its own
\* arguments; the lock files are free.
ConcInit ==
    /\ RunsInit(Runs)
    /\ \A l \in LockFiles : lock_owner[l] = "free"
    /\ \A r \in Runs :
           /\ ~euid_root[r]
           /\ argv[r].type \in ConcFeedTypes
           /\ argv[r].wait_interval = 5
    /\ argv[FailFastRun].fail_fast
    /\ call = NoCall

\* A step of run r.
RunNext(r) ==
    \/ CheckRoot(r)
    \/ ParseArguments(r)
    \/ BuildSyncLists(r)
    \/ SkipEmptySyncList(r)
    \/ EnterFlockWait(r)
    \/ FlockAcquire(r)
    \/ FlockFail(r)
    \/ StartTransfer(r)
    \/ TransferSucceeds(r)
    \/ TransferFails(r)
    \/ TransferRaises(r)
    \/ LeaveFlockBlock(r)
    \/ ReturnResult(r)
    \/ Interrupt(r)
    \/ ExitWithResult(r)
    \/ HandleGreenboneFeedSyncError(r)
    \/ HandleKeyboardInterrupt(r)
    \/ UnhandledException(r)

\* The two runs are the only processes using the lock files.
ConcNext == \E r \in Runs : RunNext(r)

SpecConc == ConcInit /\ [][ConcNext]_vars

\* The lock file guarding the sync run r is transferring (pc[r] = "rsync").
TransferLock(r) == transfers[r][Len(transfers[r])].lock_file

\* C14: two runs are never both transferring syncs guarded by the same lock
\* file.
C14_GroupsSerialized ==
    \A r1, r2 \in Runs :
        (r1 # r2 /\ pc[r1] = "rsync" /\ pc[r2] = "rsync")
            => TransferLock(r1) # TransferLock(r2)

\* C14 witness: both runs are transferring, one a gvmd sync and the other
\* an openvas sync.
C14_Witness ==
    /\ \A r \in Runs : pc[r] = "rsync"
    /\ \E r1, r2 \in Runs :
           TransferLock(r1) = GvmdLockFile /\ TransferLock(r2) = OpenvasLockFile

\* C15: every flock_wait call of a run is given no wait interval (None) if
\* args.no_wait is set and args.wait_interval otherwise; a run with
\* args.no_wait set never sees a lock acquisition fail, and while it waits,
\* it enters the block as soon as the lock file is free.
C15_WaitInterval ==
    \A r \in Runs :
        /\ \A k \in 1..Len(lock_attempts[r]) :
               lock_attempts[r][k].wait_interval =
                   IF Args(r).no_wait THEN None ELSE Some(Args(r).wait_interval)
        /\ (args[r] # None /\ Args(r).no_wait) =>
               /\ lock_failed[r] = "none"
               /\ (pc[r] = "flock_wait" /\ lock_owner[sync_list(r).lock_file] = "free")
                      => ENABLED FlockAcquire(r)

\* C15 witness: a run with args.no_wait set, having called flock_wait
\* without wait interval, waits for a lock file another process holds.
C15_Witness ==
    /\ args[MainRun] # None
    /\ Args(MainRun).no_wait
    /\ pc[MainRun] = "flock_wait"
    /\ lock_attempts[MainRun][Len(lock_attempts[MainRun])].wait_interval = None
    /\ lock_owner[sync_list(MainRun).lock_file] = "other"

\* The diagnostic outputs of failed transfers on the stderr of run r, and
\* the transfers of run r that failed with RsyncError, both in order.
Diagnostics(r) == SelectSeq(stderr[r], LAMBDA e : e[1] = "RsyncError.stderr")
FailedTransfers(r) == SelectSeq(transfers[r], LAMBDA t : t.outcome = "RsyncError")

\* C16: at any moment, with or without fail_fast, the diagnostic outputs on
\* stderr are those of the transfers that failed with RsyncError so far, one
\* each, in order: the output of a failed transfer is there when the next
\* transfer is started and when feed_sync returns.
C16_DiagnosticsWritten ==
    \A r \in Runs :
        /\ Len(Diagnostics(r)) = Len(FailedTransfers(r))
        /\ \A k \in 1..Len(Diagnostics(r)) :
               Diagnostics(r)[k][2] = FailedTransfers(r)[k].name

\* C16 witness: a fail-fast run returned 1 after its second transfer
\* failed, with the diagnostic output of that transfer on stderr.
C16_Witness ==
    /\ FailFast(MainRun)
    /\ result[MainRun] = Some(1)
    /\ Len(transfers[MainRun]) = 2
    /\ stderr[MainRun] = << <<"RsyncError.stderr", transfers[MainRun][2].name>> >>

\* The names of the syncs of the k-th sync list of run r, in order.
ListNames(r, k) ==
    [j \in 1..Len(sync_lists[r][k].syncs) |-> sync_lists[r][k].syncs[j].name]

\* C17: every configured sync is tagged "all"; for feed type "all" the
\* openvas list holds its two syncs and the gvmd list its five, in
\* declaration order, and a run that is not cut short acquires both lock
\* files and starts the seven transfers; whatever the feed type, no sync is
\* in both lists.
C17_AllSelectsEverything ==
    /\ \A s \in AllSyncs : "all" \in s.types
    /\ \A r \in Runs : sync_lists[r] # <<>> =>
           /\ sync_lists[r][1].lock_file = OpenvasLockFile
           /\ sync_lists[r][2].lock_file = GvmdLockFile
           /\ Range(sync_lists[r][1].syncs) \cap Range(sync_lists[r][2].syncs) = {}
           /\ Range(ListNames(r, 1)) \cap Range(ListNames(r, 2)) = {}
           /\ Args(r).type = "all" =>
                  /\ ListNames(r, 1) = <<"Notus files", "NASL files">>
                  /\ ListNames(r, 2) = << "SCAP data", "CERT-Bund data",
                                          "report formats", "scan configs",
                                          "port lists" >>
                  /\ (result[r] = Some(0) \/ (Continue(r) /\ result[r] # None)) =>
                         /\ lock_acquired[r] = <<OpenvasLockFile, GvmdLockFile>>
                         /\ Names(r) = DeclaredNames

\* C17 witness: a run asked for "all" has returned after acquiring both
\* lock files and starting seven transfers.
C17_Witness ==
    /\ args[MainRun] # None
    /\ Args(MainRun).type = "all"
    /\ result[MainRun] # None
    /\ Len(lock_acquired[MainRun]) = 2
    /\ Len(transfers[MainRun]) = 7

\* The lock file of the sync list whose candidates include the sync named n.
OwningLock(n) ==
    CHOOSE l \in LockFiles : \E s \in Range(CandidatesOf(l)) : s.name = n

\* C18: whenever a run is transferring a sync, it holds the lock file of
\* the list the sync belongs to and no other lock file; a transfer without
\* outcome exists only while the run awaits it.
C18_TransferUnderLock ==
    \A r \in Runs :
        /\ pc[r] = "rsync" =>
               /\ transfers[r] # <<>>
               /\ lock_owner[OwningLock(transfers[r][Len(transfers[r])].name)] = r
               /\ Held(r) = {OwningLock(transfers[r][Len(transfers[r])].name)}
        /\ \A k \in 1..Len(transfers[r]) :
               transfers[r][k].outcome = "pending" => pc[r] = "rsync"

\* C18 witness: a run transfers a gvmd sync while another process holds
\* the openvas lock file.
C18_Witness ==
    /\ pc[MainRun] = "rsync"
    /\ transfers[MainRun][Len(transfers[MainRun])].name = "SCAP data"
    /\ lock_owner[GvmdLockFile] = MainRun
    /\ lock_owner[OpenvasLockFile] = "other"

\* The steps run r takes by itself when scheduled: all but an interruption
\* and a lock acquisition that gives up.  A started transfer ends (with
\* success, RsyncError or another exception).
Progress(r) ==
    \/ CheckRoot(r)
    \/ ParseArguments(r)
    \/ BuildSyncLists(r)
    \/ SkipEmptySyncList(r)
    \/ EnterFlockWait(r)
    \/ FlockAcquire(r)
    \/ StartTransfer(r)
    \/ TransferSucceeds(r)
    \/ TransferFails(r)
    \/ TransferRaises(r)
    \/ LeaveFlockBlock(r)
    \/ ReturnResult(r)
    \/ ExitWithResult(r)
    \/ HandleGreenboneFeedSyncError(r)
    \/ HandleKeyboardInterrupt(r)
    \/ UnhandledException(r)

\* Two runs are started, by root or by an unprivileged user, that wait
\* indefinitely for the lock files (args.no_wait); the lock files are free.
FairInit ==
    /\ RunsInit(Runs)
    /\ \A l \in LockFiles : lock_owner[l] = "free"
    /\ \A r \in Runs :
           /\ argv[r].type \in ConcFeedTypes
           /\ argv[r].wait_interval = 5
           /\ argv[r].no_wait
    /\ argv[FailFastRun].fail_fast
    /\ call = NoCall

\* A step of one of the two runs; a lock acquisition never gives up, since
\* the runs are given no wait interval.
FairNext == \E r \in Runs : Progress(r) \/ Interrupt(r)

\* Two concurrent runs, each scheduled fairly.
SpecConcFair ==
    FairInit /\ [][FairNext]_vars /\ \A r \in Runs : WF_vars(Progress(r))

\* C19: two concurrent runs, fairly scheduled and with transfers that end,
\* both eventually have exited, holding no lock file.
C19_NoDeadlock ==
    <>[](\A r \in Runs : pc[r] = "exited" /\ Held(r) = {})

\* C19 witness: both runs waited indefinitely for lock files (args.no_wait),
\* each took both lock files, and both have exited.
C19_Witness ==
    \A r \in Runs :
        /\ pc[r] = "exited"
        /\ args[r] # None
        /\ Args(r).no_wait
        /\ lock_acquired[r] = <<OpenvasLockFile, GvmdLockFile>>
        /\ Held(r) = {}

\* C20: with or without fail_fast, a transfer that raised an exception
\* other than RsyncError is the last transfer of the run and its lock file
\* the last one requested; the exception has left feed_sync, which returns
\* nothing; nothing of the transfer is printed as an RsyncError; the run
\* holds no lock file; and it exits with status 1.
C20_OtherErrorAborts ==
    \A r \in Runs :
        \A k \in 1..Len(transfers[r]) :
            transfers[r][k].outcome = "Exception" =>
                /\ k = Len(transfers[r])
                /\ pc[r] \in {"raised", "exited"}
                /\ exc[r] = "Exception"
                /\ result[r] = None
                /\ lock_attempts[r][Len(lock_attempts[r])].lock_file
                       = transfers[r][k].lock_file
                /\ Held(r) = {}
                /\ lock_released[r] = lock_acquired[r]
                /\ <<"RsyncError.stderr", transfers[r][k].name>> \notin Range(stderr[r])
                /\ pc[r] = "exited" => exit_status[r] = Some(1)

\* C20 witness: a run without fail_fast asked for everything has exited
\* after its first transfer raised an exception other than RsyncError.
C20_Witness ==
    /\ Continue(MainRun)
    /\ Args(MainRun).type = "all"
    /\ Len(transfers[MainRun]) = 1
    /\ transfers[MainRun][1].outcome = "Exception"
    /\ pc[MainRun] = "exited"

====
